---- MODULE Spec2Model ----
(***************************************************************************)
(* Model of scripts/watch.py: the change-detection pipeline                *)
(* (fetch_text, meaningful_delta, classify, post_slack, create_issue, run) *)
(* and of the diff copy loop of scripts/build_site.py.                     *)
(*                                                                         *)
(* A Python str is a sequence of one-character strings.  Indices of the    *)
(* difflib operators are 0-based and half-open as in Python; a[i] of       *)
(* Python is a[i+1] here.                                                  *)
(***************************************************************************)
EXTENDS Integers, Sequences, FiniteSets, TLC

\* ------------------------------------------------------------------ str
\* The characters re's \s matches and the ones str.splitlines() breaks at.
\* Every line boundary of str.splitlines() is also matched by \s; the model
\* keeps one of them ("\n") and two further whitespace characters.
Whitespace == {" ", "\n", "\t"}
LineBoundary == {"\n"}

\* The function f on 1..n as the tuple of its values.
TupleOf(f) == f \o <<>>

\* The first index from i on of a character of s that is in `set` when
\* `inside`, outside it otherwise; Len(s) + 1 when there is none.
Find(s, i, set, inside) ==
    IF \E j \in i..Len(s) : (s[j] \in set) = inside
    THEN CHOOSE j \in i..Len(s) :
            /\ (s[j] \in set) = inside
            /\ \A h \in i..(j - 1) : (s[h] \in set) # inside
    ELSE Len(s) + 1

RECURSIVE WordsFrom(_, _)
\* The word s[b..e-1], which the whitespace s[e] or the end of s ends, and
\* the words after it.
WordsAt(s, b, e) == <<SubSeq(s, b, e - 1)>> \o WordsFrom(s, Find(s, e, Whitespace, FALSE))

\* The words of s[b..] when s[b] is the first character of one.
WordsFrom(s, b) ==
    IF b > Len(s) THEN <<>> ELSE WordsAt(s, b, Find(s, b, Whitespace, TRUE))

\* str.split(): the maximal runs of non-whitespace characters.
split(s) == WordsFrom(s, Find(s, 1, Whitespace, FALSE))

RECURSIVE LinesFrom(_, _)
\* The line s[i..e-1], which the boundary s[e] or the end of s ends, and the
\* lines after it.
LinesAt(s, i, e) == <<SubSeq(s, i, e - 1)>> \o LinesFrom(s, e + 1)

LinesFrom(s, i) ==
    IF i > Len(s) THEN <<>> ELSE LinesAt(s, i, Find(s, i, LineBoundary, TRUE))

\* str.splitlines(): a line for every boundary, and one for a non-empty rest.
splitlines(s) == LinesFrom(s, 1)

RECURSIVE join(_, _)
\* sep.join(parts)
join(sep, parts) ==
    IF parts = <<>> THEN <<>>
    ELSE IF Len(parts) = 1 THEN parts[1]
    ELSE parts[1] \o sep \o join(sep, Tail(parts))

\* str.startswith(prefix)
startswith(s, prefix) ==
    /\ Len(s) >= Len(prefix)
    /\ SubSeq(s, 1, Len(prefix)) = prefix

RECURSIVE Digits(_)
\* '{}'.format(n) for an int n >= 0
Digits(n) ==
    LET d == <<"0", "1", "2", "3", "4", "5", "6", "7", "8", "9">>
    IN  IF n < 10 THEN <<d[n + 1]>> ELSE Append(Digits(n \div 10), d[(n % 10) + 1])

\* [x] * n
Rep(x, n) == TupleOf([i \in 1..n |-> x])
Count(s, x) == Cardinality({i \in 1..Len(s) : s[i] = x})
MaxOf(x, y) == IF x >= y THEN x ELSE y
MinOf(x, y) == IF x <= y THEN x ELSE y

\* ------------------------------------------------------------ difflib
\* The loop of SequenceMatcher.quick_ratio: avail[elt] starts at the number of
\* times elt occurs in b and drops by one at every occurrence of elt in a;
\* a[i] is a match when avail[a[i]] is still positive on reaching it.
QuickMatches(a, b) ==
    Cardinality({i \in 1..Len(a) :
                    Count(b, a[i]) - Cardinality({h \in 1..(i - 1) : a[h] = a[i]}) > 0})

\* quick_ratio() as the fraction <<numerator, denominator>> that
\* _calculate_ratio divides: 2.0 * matches / length, or 1.0 when length is 0.
quick_ratio(a, b) ==
    IF Len(a) + Len(b) = 0 THEN <<1, 1>>
    ELSE <<2 * QuickMatches(a, b), Len(a) + Len(b)>>

RECURSIVE RunLen(_, _, _, _, _, _)
\* The length of the longest common run of a[:ahi] and b[:bhi] that starts
\* with a[i] and b[j].
RunLen(a, b, ahi, bhi, i, j) ==
    IF i < ahi /\ j < bhi /\ a[i + 1] = b[j + 1]
    THEN 1 + RunLen(a, b, ahi, bhi, i + 1, j + 1)
    ELSE 0

\* The run with the greatest k and, among those, the least i and then the
\* least j.
LongestOf(found, alo, blo) ==
    IF found = {} THEN <<alo, blo, 0>>
    ELSE CHOOSE r \in found :
            \A q \in found :
                \/ r[3] > q[3]
                \/ r[3] = q[3] /\ r[1] < q[1]
                \/ r[3] = q[3] /\ r[1] = q[1] /\ r[2] <= q[2]

\* find_longest_match(alo, ahi, blo, bhi): the <<i, j, k>> with a[i:i+k] equal
\* to b[j:j+k] that the double loop keeps (best is replaced only by a longer
\* run, i and j increasing); <<alo, blo, 0>> when no element matches.  No
\* element is junk: isjunk is None, and autojunk drops popular elements only
\* when b has 200 elements or more.
find_longest_match(a, b, alo, ahi, blo, bhi) ==
    LongestOf({r \in {<<i, j, RunLen(a, b, ahi, bhi, i, j)>> :
                        i \in alo..(ahi - 1), j \in blo..(bhi - 1)} : r[3] > 0},
              alo, blo)

RECURSIVE MatchingBlocksIn(_, _, _, _, _, _)
RECURSIVE BlocksAround(_, _, _, _, _, _, _)
\* The queue of get_matching_blocks, in sorted order: the blocks to the left
\* of the longest match x, the match, the blocks to its right.
BlocksAround(a, b, alo, ahi, blo, bhi, x) ==
    IF x[3] = 0 THEN <<>>
    ELSE (IF alo < x[1] /\ blo < x[2]
          THEN MatchingBlocksIn(a, b, alo, x[1], blo, x[2]) ELSE <<>>)
         \o <<x>>
         \o (IF x[1] + x[3] < ahi /\ x[2] + x[3] < bhi
             THEN MatchingBlocksIn(a, b, x[1] + x[3], ahi, x[2] + x[3], bhi) ELSE <<>>)

MatchingBlocksIn(a, b, alo, ahi, blo, bhi) ==
    BlocksAround(a, b, alo, ahi, blo, bhi, find_longest_match(a, b, alo, ahi, blo, bhi))

RECURSIVE CollapseAdjacent(_, _, _, _)
\* get_matching_blocks' merge of adjacent blocks; cur is (i1, j1, k1).
CollapseAdjacent(blocks, n, cur, acc) ==
    IF n > Len(blocks)
    THEN (IF cur[3] # 0 THEN Append(acc, cur) ELSE acc)
    ELSE LET x == blocks[n]
         IN  IF cur[1] + cur[3] = x[1] /\ cur[2] + cur[3] = x[2]
             THEN CollapseAdjacent(blocks, n + 1, <<cur[1], cur[2], cur[3] + x[3]>>, acc)
             ELSE CollapseAdjacent(blocks, n + 1, x,
                                   IF cur[3] # 0 THEN Append(acc, cur) ELSE acc)

get_matching_blocks(a, b) ==
    Append(CollapseAdjacent(MatchingBlocksIn(a, b, 0, Len(a), 0, Len(b)), 1, <<0, 0, 0>>, <<>>),
           <<Len(a), Len(b), 0>>)

RECURSIVE OpcodesFrom(_, _, _, _, _)
\* get_opcodes: an opcode is <<tag, i1, i2, j1, j2>>.
OpcodesFrom(blocks, n, i, j, acc) ==
    IF n > Len(blocks) THEN acc
    ELSE LET ai == blocks[n][1]
             bj == blocks[n][2]
             size == blocks[n][3]
             tag == IF i < ai /\ j < bj THEN "replace"
                    ELSE IF i < ai THEN "delete"
                    ELSE IF j < bj THEN "insert"
                    ELSE ""
             acc1 == IF tag # "" THEN Append(acc, <<tag, i, ai, j, bj>>) ELSE acc
             acc2 == IF size # 0
                     THEN Append(acc1, <<"equal", ai, ai + size, bj, bj + size>>)
                     ELSE acc1
         IN  OpcodesFrom(blocks, n + 1, ai + size, bj + size, acc2)

get_opcodes(a, b) == OpcodesFrom(get_matching_blocks(a, b), 1, 0, 0, <<>>)

RECURSIVE GroupFrom(_, _, _, _, _)
\* The loop of get_grouped_opcodes: a run of more than 2n equal lines ends
\* the current group and starts the next one.
GroupFrom(codes, c, n, group, acc) ==
    IF c > Len(codes)
    THEN (IF group # <<>> /\ ~(Len(group) = 1 /\ group[1][1] = "equal")
          THEN Append(acc, group) ELSE acc)
    ELSE LET x == codes[c]
         IN  IF x[1] = "equal" /\ x[3] - x[2] > n + n
             THEN GroupFrom(codes, c + 1, n,
                            << <<x[1], MaxOf(x[2], x[3] - n), x[3], MaxOf(x[4], x[5] - n), x[5]>> >>,
                            Append(acc, Append(group,
                                <<x[1], x[2], MinOf(x[3], x[2] + n), x[4], MinOf(x[5], x[4] + n)>>)))
             ELSE GroupFrom(codes, c + 1, n, Append(group, x), acc)

\* if not codes: codes = [("equal", 0, 1, 0, 1)]
OrOneEqual(codes) == IF codes = <<>> THEN << <<"equal", 0, 1, 0, 1>> >> ELSE codes

\* The fixup of a leading group that shows no change.
TrimLeading(codes, n) ==
    IF codes[1][1] = "equal"
    THEN [codes EXCEPT ![1] = <<@[1], MaxOf(@[2], @[3] - n), @[3], MaxOf(@[4], @[5] - n), @[5]>>]
    ELSE codes

\* The fixup of a trailing group that shows no change.
TrimTrailing(codes, n) ==
    IF codes[Len(codes)][1] = "equal"
    THEN [codes EXCEPT ![Len(codes)] =
              <<@[1], @[2], MinOf(@[3], @[2] + n), @[4], MinOf(@[5], @[4] + n)>>]
    ELSE codes

get_grouped_opcodes(a, b, n) ==
    GroupFrom(TrimTrailing(TrimLeading(OrOneEqual(get_opcodes(a, b)), n), n), 1, n, <<>>, <<>>)

\* _format_range_unified(start, stop)
format_range_unified(start, stop) ==
    LET beginning == start + 1
        length == stop - start
    IN  IF length = 1 THEN Digits(beginning)
        ELSE Digits(IF length = 0 THEN beginning - 1 ELSE beginning) \o <<",">> \o Digits(length)

\* a[i1:i2], each line behind the marker
Marked(marker, lines, i1, i2) ==
    TupleOf([k \in 1..(i2 - i1) |-> <<marker>> \o lines[i1 + k]])

RECURSIVE OpcodeLines(_, _, _, _)
OpcodeLines(a, b, group, c) ==
    IF c > Len(group) THEN <<>>
    ELSE LET x == group[c]
             own == IF x[1] = "equal" THEN Marked(" ", a, x[2], x[3])
                    ELSE (IF x[1] \in {"replace", "delete"} THEN Marked("-", a, x[2], x[3]) ELSE <<>>)
                         \o (IF x[1] \in {"replace", "insert"} THEN Marked("+", b, x[4], x[5]) ELSE <<>>)
         IN  own \o OpcodeLines(a, b, group, c + 1)

RECURSIVE HunksFrom(_, _, _, _)
HunksFrom(a, b, groups, g) ==
    IF g > Len(groups) THEN <<>>
    ELSE LET group == groups[g]
             first == group[1]
             last == group[Len(group)]
             head == <<"@", "@", " ", "-">> \o format_range_unified(first[2], last[3])
                     \o <<" ", "+">> \o format_range_unified(first[4], last[5])
                     \o <<" ", "@", "@">>
         IN  <<head>> \o OpcodeLines(a, b, group, 1) \o HunksFrom(a, b, groups, g + 1)

\* The number of context lines of difflib.unified_diff (its default n).
ContextLines == 3

\* The two file headers (the file names and dates are empty) once there is a
\* group, then every hunk.
DiffLines(a, b, groups) ==
    IF groups = <<>> THEN <<>>
    ELSE << <<"-", "-", "-", " ">>, <<"+", "+", "+", " ">> >> \o HunksFrom(a, b, groups, 1)

\* difflib.unified_diff(a, b, lineterm="")
unified_diff(a, b) == DiffLines(a, b, get_grouped_opcodes(a, b, ContextLines))

\* ------------------------------------------------------ meaningful_delta
\* The literals of the policy line: ratio < 0.995, len(diff_text) > 120,
\* magnitude > 8.  The ratio 2.0*matches/length is compared as a fraction.
RatioCutoffPerMille == 995
DiffLengthCutoff == 120
MagnitudeCutoff == 8

\* l.startswith(("+","-")) and not l.startswith(("+++","---"))
CountsAsChanged(l) ==
    /\ startswith(l, <<"+">>) \/ startswith(l, <<"-">>)
    /\ ~(startswith(l, <<"+", "+", "+">>) \/ startswith(l, <<"-", "-", "-">>))

\* A variant of the policy of meaningful_delta without the magnitude guard.
IsMeaningfulWithoutMagnitude(ratio, length, magnitude) ==
    /\ 1000 * ratio[1] < RatioCutoffPerMille * ratio[2]
    /\ length > DiffLengthCutoff

\* changed = (ratio < 0.995) and (len(diff_text) > 120) and (magnitude > 8)
IsMeaningful(ratio, length, magnitude) ==
    /\ 1000 * ratio[1] < RatioCutoffPerMille * ratio[2]
    /\ length > DiffLengthCutoff
    /\ magnitude > MagnitudeCutoff

\* sum(1 for l in diff_text.splitlines() if <l counts as changed>)
Magnitude(lines) == Cardinality({i \in 1..Len(lines) : CountsAsChanged(lines[i])})

\* return changed, diff_text, magnitude
Delta(ratio, diff_text, magnitude) ==
    [changed |-> IsMeaningful(ratio, Len(diff_text), magnitude),
     diff_text |-> diff_text,
     magnitude |-> magnitude]

DeltaOf(ratio, diff_text) == Delta(ratio, diff_text, Magnitude(splitlines(diff_text)))

meaningful_delta(a, b) ==
    DeltaOf(quick_ratio(split(a), split(b)),
            join(<<"\n">>, unified_diff(splitlines(a), splitlines(b))))

\* ------------------------------------------------------------- classify
\* CATS, in declaration order (the order dict.items() iterates in).
CATS ==
    <<
       [name |-> "pricing",
        kws |-> <<<<"p", "r", "i", "c", "e">>,
                  <<"p", "r", "i", "c", "i", "n", "g">>,
                  <<"f", "e", "e">>,
                  <<"c", "h", "a", "r", "g", "e">>,
                  <<"c", "o", "s", "t">>,
                  <<"t", "i", "e", "r">>,
                  <<"b", "i", "l", "l", "i", "n", "g">>>>],
       [name |-> "data_usage",
        kws |-> <<<<"d", "a", "t", "a">>,
                  <<"c", "o", "l", "l", "e", "c", "t">>,
                  <<"s", "h", "a", "r", "e">>,
                  <<"r", "e", "t", "a", "i", "n">>,
                  <<"s", "t", "o", "r", "e">>,
                  <<"p", "r", "o", "c", "e", "s", "s">>,
                  <<"r", "e", "t", "e", "n", "t", "i", "o", "n">>>>],
       [name |-> "ip_ai_training",
        kws |-> <<<<"t", "r", "a", "i", "n">>,
                  <<"t", "r", "a", "i", "n", "i", "n", "g">>,
                  <<"a", "i">>,
                  <<"m", "o", "d", "e", "l">>,
                  <<"l", "i", "c", "e", "n", "s", "e">>,
                  <<"i", "p">>>>],
       [name |-> "deprecation",
        kws |-> <<<<"d", "e", "p", "r", "e", "c", "a", "t">>,
                  <<"s", "u", "n", "s", "e", "t">>,
                  <<"r", "e", "m", "o", "v", "e">>,
                  <<"e", "o", "l">>,
                  <<"r", "e", "p", "l", "a", "c", "e", "m", "e", "n", "t">>,
                  <<"m", "i", "g", "r", "a", "t", "e">>>>],
       [name |-> "rate_limits",
        kws |-> <<<<"r", "a", "t", "e", " ", "l", "i", "m", "i", "t">>,
                  <<"q", "u", "o", "t", "a">>,
                  <<"r", "p", "m">>,
                  <<"r", "p", "s">>,
                  <<"r", "e", "q", "u", "e", "s", "t", "s", " ", "p", "e", "r">>,
                  <<"t", "h", "r", "o", "u", "g", "h", "p", "u", "t">>>>],
       [name |-> "acceptable_use",
        kws |-> <<<<"p", "r", "o", "h", "i", "b", "i", "t", "e", "d">>,
                  <<"a", "b", "u", "s", "e">>,
                  <<"s", "p", "a", "m">>,
                  <<"i", "l", "l", "e", "g", "a", "l">>,
                  <<"m", "a", "l", "w", "a", "r", "e">>,
                  <<"h", "a", "r", "m", "f", "u", "l">>>>],
       [name |-> "privacy",
        kws |-> <<<<"p", "r", "i", "v", "a", "c", "y">>,
                  <<"g", "d", "p", "r">>,
                  <<"c", "c", "p", "a">>,
                  <<"p", "i", "i">>,
                  <<"d", "a", "t", "a", " ", "s", "u", "b", "j", "e", "c", "t">>,
                  <<"c", "o", "n", "t", "r", "o", "l", "l", "e", "r">>,
                  <<"p", "r", "o", "c", "e", "s", "s", "o", "r">>>>]
    >>

Upper == <<"A", "B", "C", "D", "E", "F", "G", "H", "I", "J", "K", "L", "M", "N", "O", "P", "Q", "R", "S", "T", "U", "V", "W", "X", "Y", "Z">>
Lower == <<"a", "b", "c", "d", "e", "f", "g", "h", "i", "j", "k", "l", "m", "n", "o", "p", "q", "r", "s", "t", "u", "v", "w", "x", "y", "z">>

\* str.lower() of one character
LowerChar(c) ==
    IF \E i \in 1..Len(Upper) : Upper[i] = c
    THEN Lower[CHOOSE i \in 1..Len(Upper) : Upper[i] = c]
    ELSE c

lower(s) == TupleOf([i \in 1..Len(s) |-> LowerChar(s[i])])

\* k in text
Contains(text, k) ==
    \E i \in 1..(Len(text) - Len(k) + 1) :
        text[i] = k[1] /\ SubSeq(text, i, i + Len(k) - 1) = k

\* sum(1 for k in kws if k in text)
Hits(kws, text) == Cardinality({i \in 1..Len(kws) : Contains(text, kws[i])})

\* A variant, if hits >= best_hits: a later category takes a tie.
ImprovesOrTies(hits, best_hits) == hits >= best_hits

\* if hits > best_hits
Improves(hits, best_hits) == hits > best_hits

RECURSIVE BestCategory(_, _, _)
\* The loop over CATS.items(), from the c-th category on; best is
\* <<category, best_hits>>.
BestCategory(text, c, best) ==
    IF c > Len(CATS) THEN best
    ELSE LET hits == Hits(CATS[c].kws, text)
         IN  BestCategory(text, c + 1,
                          IF Improves(hits, best[2]) THEN <<CATS[c].name, hits>> ELSE best)

Severity(best_hits) ==
    IF best_hits >= 5 THEN "critical"
    ELSE IF best_hits >= 3 THEN "high"
    ELSE IF best_hits >= 2 THEN "medium"
    ELSE "low"

\* l.startswith(("+","-"))
IsMarked(l) == startswith(l, <<"+">>) \/ startswith(l, <<"-">>)

\* l[1:] for every l
Unmarked(lines) == TupleOf([i \in 1..Len(lines) |-> Tail(lines[i])])

\* [l[1:] for l in lines if l.startswith(("+","-"))]
ChangedLines(lines) == Unmarked(SelectSeq(lines, IsMarked))

\* (after + " " + changed_text).lower()
SearchText(after, diff_text) ==
    lower(after \o <<" ">> \o join(<<" ">>, ChangedLines(splitlines(diff_text))))

\* The severity of the winner <<category, best_hits>> of the loop.
Classified(best) == [category |-> best[1], severity |-> Severity(best[2])]

\* classify(before, after, diff_text); the summary line is a function of
\* the category and the effective date of the after text alone, and neither
\* is kept here.
classify(before, after, diff_text) ==
    Classified(BestCategory(SearchText(after, diff_text), 1, <<"privacy", 0>>))

\* ------------------------------------------------------------- state
VARIABLES
    snap,      \* data/snapshots: key -> the text of <key>.txt, or NoFile
    diffs,     \* data/diffs: the set of <<name, text>> of the files written
    events,    \* data/events.jsonl: the records appended, oldest first
    slack,     \* the payloads the Slack webhook received
    issues,    \* the issues the GitHub API received
    cur,       \* run(): the index in config["sources"] of the next source
    status,    \* run(): "idle", "running", "done" or "raised"
    runs,      \* the number of run() calls started
    last,      \* what the last iteration of run()'s loop did
    fetched,   \* per key, the results fetch_text has had so far
    env,       \* SLACK_WEBHOOK_URL and GITHUB_TOKEN/GITHUB_REPOSITORY being set
    args,      \* the arguments of the function under evaluation
    ret        \* its return value, or NoRet

vars == <<snap, diffs, events, slack, issues, cur, status, runs, last, fetched, env, args, ret>>
pipeline == <<snap, diffs, events, slack, issues, cur, status, runs, last, fetched, env>>

NoFile == [exists |-> FALSE, text |-> <<>>]
NoRet == [fn |-> "none"]
NoKey == <<"", "">>
NoStep ==
    [outcome |-> "none", key |-> NoKey, changed |-> FALSE, magnitude |-> 0,
     before_lines |-> 0, after_lines |-> 0, slack |-> "none", issue |-> "none"]
\* Whether SLACK_WEBHOOK_URL, and GITHUB_TOKEN with GITHUB_REPOSITORY, are set.
Envs == [slack : BOOLEAN, github : BOOLEAN]

\* The pipeline at rest: nothing on disk, nothing sent, run() not started.
PipelineAtRest ==
    /\ diffs = <<>>
    /\ events = <<>>
    /\ slack = <<>>
    /\ issues = <<>>
    /\ cur = 0
    /\ status = "idle"
    /\ runs = 0
    /\ last = NoStep

\* ------------------------------------------------------------ run()
\* config["sources"] of watchers.yml, in order.
Sources ==
    << [vendor |-> "Acme", slug |-> "acme", type |-> "terms", url |-> "https://acme.example/terms"],
       [vendor |-> "Bolt", slug |-> "bolt", type |-> "pricing", url |-> "https://bolt.example/pricing"] >>

\* key = f"{slug}-{typ}"
KeyOf(s) == <<s.slug, s.type>>
Keys == {KeyOf(Sources[i]) : i \in 1..Len(Sources)}

\* What trafilatura's extract() makes of the pages the sources serve ("" when
\* it returns None): ten lines of terms, nothing.
PageTerms == join(<<"\n">>, Rep(<<"f", "e", "e", " ", "t", "i", "e", "r">>, 5) \o Rep(<<"d", "a", "t", "a", " ", " ", "u", "s", "e">>, 5))
PageEmpty == <<>>
Pages == {PageTerms, PageEmpty}

\* What requests.get and raise_for_status make of a fetch.
Responses ==
    {[ok |-> FALSE, extracted |-> <<>>]} \cup {[ok |-> TRUE, extracted |-> p] : p \in Pages}

\* re.sub(r"\s+", " ", text): every run of whitespace becomes one space.
CollapseWhitespace(text) ==
    LET words == split(text)
    IN  IF text = <<>> THEN <<>>
        ELSE IF words = <<>> THEN <<" ">>
        ELSE (IF text[1] \in Whitespace THEN <<" ">> ELSE <<>>)
             \o join(<<" ">>, words)
             \o (IF text[Len(text)] \in Whitespace THEN <<" ">> ELSE <<>>)

\* str.strip()
strip(s) ==
    LET keep == {i \in 1..Len(s) : s[i] \notin Whitespace}
    IN  IF keep = {} THEN <<>>
        ELSE SubSeq(s, CHOOSE i \in keep : \A j \in keep : i <= j,
                       CHOOSE i \in keep : \A j \in keep : i >= j)

\* A variant of fetch_text that returns the extracted text as it is, line
\* breaks included.
fetch_text_unnormalised(response) ==
    IF ~response.ok THEN [raised |-> TRUE, text |-> <<>>]
    ELSE [raised |-> FALSE, text |-> response.extracted]

\* fetch_text(url): raises on a network or HTTP error, else returns the
\* extracted text with its whitespace collapsed and its ends stripped.
fetch_text(response) ==
    IF ~response.ok THEN [raised |-> TRUE, text |-> <<>>]
    ELSE [raised |-> FALSE, text |-> strip(CollapseWhitespace(response.extracted))]

\* What fetch_text returns or raises, over the responses.
Fetches == {fetch_text(response) : response \in Responses}

\* The ways a write to disk ends: done; open() failed and the file is as it
\* was; the write failed after open() truncated the file.
WriteResults == {"ok", "open_failed", "write_failed"}

\* Path.write_text(text) on a store path -> file
write_text(store, path, text, result) ==
    CASE result = "ok" -> (path :> [exists |-> TRUE, text |-> text]) @@ store
      [] result = "write_failed" -> (path :> [exists |-> TRUE, text |-> <<>>]) @@ store
      [] OTHER -> store

Exists(store, path) == path \in DOMAIN store /\ store[path].exists

\* A variant of post_slack without the try/except around requests.post.
post_slack_unguarded(configured, delivered) ==
    [raised |-> configured /\ ~delivered,
     did |-> IF ~configured THEN "off" ELSE IF delivered THEN "sent" ELSE "failed"]

\* post_slack: nothing without the webhook; an exception of requests.post
\* is swallowed.
post_slack(configured, delivered) ==
    [raised |-> FALSE,
     did |-> IF ~configured THEN "off" ELSE IF delivered THEN "sent" ELSE "failed"]

\* create_issue: nothing without the token and the repository; an exception
\* of requests.post is swallowed.
create_issue(configured, delivered) ==
    [raised |-> FALSE,
     did |-> IF ~configured THEN "off" ELSE IF delivered THEN "sent" ELSE "failed"]

\* A variant of the recording statements of run() that appends the event
\* before it writes the diff file.
RecordEventFirst(st, src, after, d, meta, h, io) ==
    LET key == KeyOf(src)
        diff_file == <<key, h>>
        event == [slug |-> src.slug, type |-> src.type, diff_file |-> diff_file,
                  magnitude |-> d.magnitude, category |-> meta.category,
                  severity |-> meta.severity]
        snap1 == write_text(st.snap, key, after, io.snap)
        diffs1 == write_text(st.diffs, diff_file, d.diff_text, io.diff)
    IN  IF io.snap # "ok"
        THEN [snap |-> snap1, diffs |-> st.diffs, events |-> st.events,
              raised |-> TRUE, outcome |-> "snapshot_write_error", diff_file |-> diff_file]
        ELSE IF ~io.event
        THEN [snap |-> snap1, diffs |-> st.diffs, events |-> st.events,
              raised |-> TRUE, outcome |-> "event_write_error", diff_file |-> diff_file]
        ELSE IF io.diff # "ok"
        THEN [snap |-> snap1, diffs |-> diffs1, events |-> Append(st.events, event),
              raised |-> TRUE, outcome |-> "diff_write_error", diff_file |-> diff_file]
        ELSE [snap |-> snap1, diffs |-> diffs1, events |-> Append(st.events, event),
              raised |-> FALSE, outcome |-> "recorded", diff_file |-> diff_file]

\* The statements of run() from snap_path.write_text(after) to the append to
\* events.jsonl, in order; an exception of one ends run().  st holds the
\* stores, io how each write ends.
Record(st, src, after, d, meta, h, io) ==
    LET key == KeyOf(src)
        diff_file == <<key, h>>
        event == [slug |-> src.slug, type |-> src.type, diff_file |-> diff_file,
                  magnitude |-> d.magnitude, category |-> meta.category,
                  severity |-> meta.severity]
        snap1 == write_text(st.snap, key, after, io.snap)
        diffs1 == write_text(st.diffs, diff_file, d.diff_text, io.diff)
    IN  IF io.snap # "ok"
        THEN [snap |-> snap1, diffs |-> st.diffs, events |-> st.events,
              raised |-> TRUE, outcome |-> "snapshot_write_error", diff_file |-> diff_file]
        ELSE IF io.diff # "ok"
        THEN [snap |-> snap1, diffs |-> diffs1, events |-> st.events,
              raised |-> TRUE, outcome |-> "diff_write_error", diff_file |-> diff_file]
        ELSE IF ~io.event
        THEN [snap |-> snap1, diffs |-> diffs1, events |-> st.events,
              raised |-> TRUE, outcome |-> "event_write_error", diff_file |-> diff_file]
        ELSE [snap |-> snap1, diffs |-> diffs1, events |-> Append(st.events, event),
              raised |-> FALSE, outcome |-> "recorded", diff_file |-> diff_file]

\* post_slack(...) then create_issue(...): an exception leaving the first
\* would end run() before the second.
Notify(nt, src, meta, diff_file, io) ==
    LET s == post_slack(env.slack, io.slack)
        c == create_issue(env.github, io.issue)
        payload == [slug |-> src.slug, type |-> src.type, severity |-> meta.severity]
        issue == [slug |-> src.slug, type |-> src.type, diff_file |-> diff_file]
    IN  IF s.raised
        THEN [slack |-> nt.slack, issues |-> nt.issues, raised |-> TRUE,
              slack_did |-> s.did, issue_did |-> "none"]
        ELSE [slack |-> IF s.did = "sent" THEN Append(nt.slack, payload) ELSE nt.slack,
              issues |-> IF c.did = "sent" THEN Append(nt.issues, issue) ELSE nt.issues,
              raised |-> c.raised,
              slack_did |-> s.did, issue_did |-> c.did]

\* A variant of the no-change branch that saves the fetched text.
NoChangeSavingSnapshot(st, key, after) ==
    [st EXCEPT !.snap = write_text(st.snap, key, after, "ok")]

\* if not changed: print(...); continue
NoChange(st, key, after) == st

\* How the writes and the posts of one iteration end.  A call that an earlier
\* exception keeps run() from making has no result to draw: it is "ok" here.
IOs ==
    {io \in [snap : WriteResults, diff : WriteResults, event : BOOLEAN,
             slack : BOOLEAN, issue : BOOLEAN] :
        /\ io.snap # "ok" => io.diff = "ok" /\ io.event
        /\ io.diff # "ok" => io.event
        /\ io.snap # "ok" \/ io.diff # "ok" \/ ~io.event => io.slack /\ io.issue}

\* The greatest number of run() calls.
MaxRuns == 2

\* h = sha1(str(time.time()) + url)[:12]: the clock never repeats, so every
\* diff file gets a name of its own; the h-th name is the h-th file written.
FreshToken(store) == Cardinality(DOMAIN store) + 1

LineCount(text) == Len(splitlines(text))

\* python scripts/watch.py: run() loads the configuration and starts with
\* the first source.
StartRun ==
    /\ status # "running"
    /\ runs < MaxRuns
    /\ runs' = runs + 1
    /\ status' = IF Len(Sources) = 0 THEN "done" ELSE "running"
    /\ cur' = 1
    /\ last' = NoStep
    /\ UNCHANGED <<snap, diffs, events, slack, issues, fetched, env, args, ret>>

\* What ends an iteration: the next source, the end of the list, or an
\* exception that leaves run().
Advance(raised) ==
    /\ cur' = cur + 1
    /\ status' = IF raised THEN "raised" ELSE IF cur = Len(Sources) THEN "done" ELSE "running"

\* What the iteration for the source of key `key` leaves in `last`.
Step(outcome, key, d, before, after, slack_did, issue_did) ==
    [outcome |-> outcome, key |-> key, changed |-> d.changed, magnitude |-> d.magnitude,
     before_lines |-> LineCount(before), after_lines |-> LineCount(after),
     slack |-> slack_did, issue |-> issue_did]

\* The iteration from snap_path.write_text(after) on: the change is
\* recorded, then notified unless recording raised.
RecordAndNotify(src, after, d, meta, step) ==
    \E h \in {FreshToken(diffs)}, io \in IOs :
      \E r \in {Record([snap |-> snap, diffs |-> diffs, events |-> events],
                       src, after, d, meta, h, io)} :
        \E n \in {Notify([slack |-> slack, issues |-> issues], src, meta, r.diff_file, io)} :
          /\ snap' = r.snap
          /\ diffs' = r.diffs
          /\ events' = r.events
          /\ IF r.raised
             THEN /\ last' = [step EXCEPT !.outcome = r.outcome]
                  /\ Advance(TRUE)
                  /\ UNCHANGED <<slack, issues>>
             ELSE /\ last' = [step EXCEPT !.outcome = r.outcome,
                                          !.slack = n.slack_did, !.issue = n.issue_did]
                  /\ Advance(n.raised)
                  /\ slack' = n.slack
                  /\ issues' = n.issues

\* The iteration once fetch_text has returned or raised (f).
Process(src, before, f) ==
    /\ fetched' = [fetched EXCEPT ![KeyOf(src)] = @ \cup {f}]
    /\ UNCHANGED <<runs, env, args, ret>>
    /\ IF f.raised
       THEN /\ last' = [NoStep EXCEPT !.outcome = "fetch_error", !.key = KeyOf(src)]
            /\ Advance(FALSE)
            /\ UNCHANGED <<snap, diffs, events, slack, issues>>
       ELSE \E d \in {meaningful_delta(before, f.text)} :
              IF ~d.changed
              THEN \E st \in {NoChange([snap |-> snap, diffs |-> diffs, events |-> events],
                                       KeyOf(src), f.text)} :
                     /\ last' = Step("no_change", KeyOf(src), d, before, f.text, "none", "none")
                     /\ Advance(FALSE)
                     /\ snap' = st.snap
                     /\ diffs' = st.diffs
                     /\ events' = st.events
                     /\ UNCHANGED <<slack, issues>>
              ELSE \E meta \in {classify(before, f.text, d.diff_text)},
                      step \in {Step("recorded", KeyOf(src), d, before, f.text, "none", "none")} :
                     RecordAndNotify(src, f.text, d, meta, step)

\* before = snap_path.read_text() if snap_path.exists() else ""
ReadSnapshot(key) == IF Exists(snap, key) THEN snap[key].text ELSE <<>>

\* One iteration of the loop of run().
ProcessSource ==
    /\ status = "running"
    /\ cur <= Len(Sources)
    /\ \E f \in Fetches :
         Process(Sources[cur], ReadSnapshot(KeyOf(Sources[cur])), f)

\* The diff copy loop of scripts/build_site.py: the names of the diff files
\* it copies to docs/diffs, one for every event (of the 200 newest, which the
\* bounds here never exceed) whose diff file exists.
CopiedDiffs(evs, store) ==
    {evs[i].diff_file : i \in {j \in 1..Len(evs) : Exists(store, evs[j].diff_file)}}

Next == StartRun \/ ProcessSource

\* The stores as a first run finds them: no snapshot, no diff, no event.
Init ==
    /\ snap = [k \in Keys |-> NoFile]
    /\ env \in Envs
    /\ fetched = [k \in Keys |-> {}]
    /\ PipelineAtRest
    /\ args = <<>>
    /\ ret = NoRet

Spec == Init /\ [][Next]_vars

\* A snapshot file that run() did not write: the text of an earlier
\* extraction, which kept the line breaks of the page.
SeedTerms == join(<<"\n">>, Rep(<<"o", "l", "d", " ", "t", "e", "r", "m", "s">>, 9))
Seeds == {NoFile, [exists |-> TRUE, text |-> SeedTerms]}

\* The stores as run() may find them: any snapshot directory.
InitSeeded ==
    /\ snap \in [Keys -> Seeds]
    /\ env \in Envs
    /\ fetched = [k \in Keys |-> {}]
    /\ PipelineAtRest
    /\ args = <<>>
    /\ ret = NoRet

SpecSeeded == InitSeeded /\ [][Next]_vars

\* --------------------------------------- meaningful_delta on bounded inputs
\* The greatest number of lines of a text handed to meaningful_delta.
MaxLines == 5

\* The greatest number of lines of the second run of a text.
MaxTail == 1

\* The texts of at most n lines made of a run of one line of the pool
\* followed by a run, of at most m lines, of another.
Texts(pool, n, m) ==
    {join(<<"\n">>, Rep(t[1], t[3]) \o Rep(t[2], t[4])) :
        t \in {u \in pool \X pool \X (0..n) \X (0..m) : u[3] + u[4] <= n}}

LineShortA == <<"a">>
LineShortC == <<"c">>
LinePlus == <<"+", "+", "b">>
LineMinus == <<"-", "-", "b">>
LineLong == <<"f", "e", "e", " ", "t", "i", "e", "r", " ", "c", "o", "s", "t", " ", "p", "r", "i", "c", "e">>
LineLongSpaced == <<"f", "e", "e", " ", "t", "i", "e", "r", " ", " ", "c", "o", "s", "t", " ", "p", "r", "i", "c", "e">>

BeforeLines == {LineShortA, LineMinus, LineLong}
AfterLines == {LineShortC, LinePlus, LineLong, LineLongSpaced}

DeltaInputs == Texts(BeforeLines, MaxLines, MaxTail) \X Texts(AfterLines, MaxLines, MaxTail)

InitDelta ==
    /\ env = [slack |-> FALSE, github |-> FALSE]
    /\ snap = [k \in Keys |-> NoFile]
    /\ fetched = [k \in Keys |-> {}]
    /\ PipelineAtRest
    /\ args \in DeltaInputs
    /\ ret = NoRet

\* changed, diff_text, magnitude = meaningful_delta(before, after)
EvalDelta ==
    /\ ret = NoRet
    /\ ret' = meaningful_delta(args[1], args[2])
    /\ UNCHANGED <<args, pipeline>>

NextDelta == EvalDelta

SpecDelta == InitDelta /\ [][NextDelta]_vars

\* ---------------------------------------------- classify on bounded inputs
\* The greatest number of words of an after text handed to classify.
MaxWords == 4

\* The words the after texts are made of, in the order they keep: keywords
\* of several categories, one in capitals, one of two words, one of none.
Vocabulary ==
    << <<"P", "r", "i", "c", "i", "n", "g">>,
       <<"f", "e", "e">>,
       <<"d", "a", "t", "a">>,
       <<"s", "u", "b", "j", "e", "c", "t">>,
       <<"r", "e", "t", "a", "i", "n">>,
       <<"m", "o", "d", "e", "l">>,
       <<"h", "e", "l", "l", "o">>,
       <<"G", "D", "P", "R">> >>

RECURSIVE Picked(_, _)
\* The words of the vocabulary at the indices of `chosen`, from the i-th on.
Picked(chosen, i) ==
    IF i > Len(Vocabulary) THEN <<>>
    ELSE (IF i \in chosen THEN <<Vocabulary[i]>> ELSE <<>>) \o Picked(chosen, i + 1)

AfterTexts ==
    {join(<<" ">>, Picked(chosen, 1)) :
        chosen \in {c \in SUBSET (1..Len(Vocabulary)) : Cardinality(c) <= MaxWords}}

BeforeTexts == {<<>>, <<"f", "e", "e", " ", "c", "h", "a", "r", "g", "e">>}

\* before, after and the diff_text run() hands to classify with them.
ClassifyInputs ==
    {<<t[1], t[2], meaningful_delta(t[1], t[2]).diff_text>> : t \in BeforeTexts \X AfterTexts}

InitClassify ==
    /\ env = [slack |-> FALSE, github |-> FALSE]
    /\ snap = [k \in Keys |-> NoFile]
    /\ fetched = [k \in Keys |-> {}]
    /\ PipelineAtRest
    /\ args \in ClassifyInputs
    /\ ret = NoRet

\* meta = classify(before, after, diff_text)
EvalClassify ==
    /\ ret = NoRet
    /\ ret' = classify(args[1], args[2], args[3])
    /\ UNCHANGED <<args, pipeline>>

NextClassify == EvalClassify

SpecClassify == InitClassify /\ [][NextClassify]_vars

\* ------------------------------------------------------------- properties
\* C9: classify returns the category with the most keywords found in the
\* lowercased search text, the first-declared one of those that tie for the
\* most, and "privacy" with severity "low" when no keyword is found at all.
C9_HighestCountFirstDeclared ==
    LET found == [c \in 1..Len(CATS) |->
                    Hits(CATS[c].kws, SearchText(args[2], args[3]))] \o <<>>
    IN  ret # NoRet =>
            IF \A c \in 1..Len(CATS) : found[c] = 0
            THEN ret.category = "privacy" /\ ret.severity = "low"
            ELSE \E c \in 1..Len(CATS) :
                    /\ ret.category = CATS[c].name
                    /\ \A e \in 1..Len(CATS) : found[e] <= found[c]
                    /\ \A e \in 1..(c - 1) : found[e] < found[c]

\* classify has returned for a text in which two categories tie for the most
\* keywords.
C9_TieReached ==
    LET found == [c \in 1..Len(CATS) |->
                    Hits(CATS[c].kws, SearchText(args[2], args[3]))] \o <<>>
    IN  /\ ret # NoRet
        /\ \E c, e \in 1..Len(CATS) :
              /\ c # e
              /\ found[c] = found[e]
              /\ found[c] > 0
              /\ \A x \in 1..Len(CATS) : found[x] <= found[c]

\* C1: a step of run() in which the diff file cannot be written leaves the
\* snapshot of the source as it was and appends no event.
C1_DiffWriteFailureLeavesNothing ==
    [][last'.outcome = "diff_write_error" => snap' = snap /\ events' = events]_vars

\* C2: after two runs from an empty store in which the fetch of a source
\* returned the same text both times, the log holds exactly one event of it.
C2_TwoIdenticalRunsOneEvent ==
    (runs = 2 /\ status = "done") =>
        \A k \in Keys :
            (\E f \in Fetches : ~f.raised /\ f.text # <<>> /\ fetched[k] = {f})
                => Cardinality({i \in 1..Len(events) :
                                   <<events[i].slug, events[i].type>> = k}) = 1

\* C3: meaningful_delta reports a change exactly when the ratio of the word
\* lists is below 0.995, the diff text is longer than 120 characters and the
\* magnitude is above 8; equal texts are never reported as changed.
C3_ChangedIffAllThreeGuards ==
    ret # NoRet =>
        /\ ret.changed <=>
              /\ 1000 * quick_ratio(split(args[1]), split(args[2]))[1]
                    < 995 * quick_ratio(split(args[1]), split(args[2]))[2]
              /\ Len(ret.diff_text) > 120
              /\ ret.magnitude > 8
        /\ args[1] = args[2] => ~ret.changed

\* meaningful_delta has reported a change.
C3_ChangeReported == ret # NoRet /\ ret.changed

\* C4: every event of the log names a diff file that exists, so the copy
\* loop of build_site.py finds the diff of every event.
C4_EveryEventHasItsDiff ==
    /\ \A i \in 1..Len(events) : Exists(diffs, events[i].diff_file)
    /\ CopiedDiffs(events, diffs) = {events[i].diff_file : i \in 1..Len(events)}

\* A step has failed partway while the log holds an event.
C4_FailedStepAfterEvent ==
    /\ events # <<>>
    /\ last.outcome \in {"snapshot_write_error", "diff_write_error", "event_write_error"}

\* C5: whatever is raised while one source is processed, run() goes on to
\* every later source: it ends only past the last one.
C5_RunReachesEverySource ==
    status \in {"done", "raised"} => cur = Len(Sources) + 1

\* C6: a request of post_slack or create_issue that fails raises nothing in
\* run(): the step stands as recorded, with the snapshot, the diff file and
\* the event of its source in place, the issue is attempted after a failed
\* Slack post, and run() goes on to the next source.
C6_NotificationFailureIsSwallowed ==
    (last.slack = "failed" \/ last.issue = "failed") =>
        /\ status # "raised"
        /\ last.outcome = "recorded"
        /\ last.issue \in {"off", "sent", "failed"}
        /\ Exists(snap, last.key)
        /\ events # <<>>
        /\ <<events[Len(events)].slug, events[Len(events)].type>> = last.key
        /\ Exists(diffs, events[Len(events)].diff_file)
        /\ status = IF cur > Len(Sources) THEN "done" ELSE "running"

\* The Slack post of the first source failed, its issue was created, and
\* run() is about to process the second source.
C6_SlackFailedIssueSent ==
    /\ last.slack = "failed"
    /\ last.issue = "sent"
    /\ status = "running"
    /\ cur = 2

\* C7: a step that found no meaningful change, or whose fetch failed, leaves
\* the snapshots, the diff files and the event log as they were and sends
\* nothing; a snapshot changes only in a step that found a meaningful change,
\* and every key has at most one snapshot.
C7_OnlyMeaningfulStepsWrite ==
    [][/\ last'.outcome \in {"no_change", "fetch_error"} =>
             /\ snap' = snap
             /\ diffs' = diffs
             /\ events' = events
             /\ slack' = slack
             /\ issues' = issues
       /\ snap' # snap => last'.changed
       /\ DOMAIN snap' = Keys]_vars

\* A step found no meaningful change for a source that has a snapshot, with
\* an event in the log.
C7_NoChangeWithSnapshot ==
    /\ last.outcome = "no_change"
    /\ Exists(snap, last.key)
    /\ events # <<>>

\* C8: the magnitude meaningful_delta returns is the number of added and
\* removed lines of the diff it returns: every line after the two header
\* lines that begins with "+" or "-", whatever follows that character.
C8_MagnitudeCountsEveryContentLine ==
    ret # NoRet =>
        LET lines == splitlines(ret.diff_text)
        IN  ret.magnitude =
                Cardinality({i \in 3..Len(lines) :
                                lines[i] # <<>> /\ lines[i][1] \in {"+", "-"}})

\* C10: from an empty store no run() ever writes a snapshot, a diff file or
\* an event: the texts handed to meaningful_delta have at most one line
\* each, so the magnitude is at most 2 and no change is ever meaningful.
C10_NothingIsEverRecorded ==
    /\ \A k \in Keys : ~Exists(snap, k)
    /\ DOMAIN diffs = {}
    /\ events = <<>>
    /\ last.before_lines <= 1
    /\ last.after_lines <= 1
    /\ last.magnitude <= 2
    /\ ~last.changed

\* A step has compared the empty snapshot with a fetched text of one line.
C10_OneLineCompared ==
    /\ last.outcome = "no_change"
    /\ last.after_lines = 1
    /\ last.magnitude >= 1

====
